---- MODULE Spec2Model ----
(***************************************************************************)
(* pingo: the ping engine (pinger/pinger.go) running as a goroutine and    *)
(* the display loop of main (main.go) that consumes its channels.          *)
(*                                                                         *)
(* The engine is cut at its blocking points: ListenPacket, WriteTo,        *)
(* ReadFrom, the send on the unbuffered reportChan, time.Sleep, the        *)
(* deferred calls that run on return and the send on the done channel.     *)
(* The network (what ListenPacket, WriteTo and ReadFrom return) is the     *)
(* environment and is chosen nondeterministically.                         *)
(***************************************************************************)
EXTENDS Integers, Sequences, FiniteSets, TLC

\* ---------------------------------------------------------------- bounds
\* largest -c value tried (0 means: ping until interrupted)
MaxCount == 2
\* cap on seq for runs that the count never stops
MaxSeq == 2
\* largest packet identifier tried
MaxId == 1
\* largest round-trip time tried
MaxRTT == 2
\* number of SIGINT/SIGTERM deliveries tried
MaxSignals == 1
\* bits of a byte in the codec: Go's byte has 8 and int64 has 8 bytes; the
\* codec keeps the 8 bytes and narrows the byte, so that the word (16 bits
\* here) and its overflow fit the integers of the model checker
byteBits == 2
\* timestamps tried around 0, next to the ends of the word and the powers of
\* the byte radix
MaxT == 40
\* largest -s value (PacketSize) tried
MaxSize == 10
\* largest totalCount handed to PacketLoss
MaxTotal == 6
\* largest population handed to the statistics
MaxPop == 3
\* round-trip samples of -MaxVal..MaxVal milliseconds
MaxVal == 2
\* Options.Timeout values tried around 0, in nanoseconds
MaxTimeout == 2
\* attempts recorded on the Stats whose copy is watched
MaxOps == 5

\* ------------------------------------------------------------- constants
DefaultPacketSize == 56
\* DefaultTimeout = time.Second, in nanoseconds
DefaultTimeout == 1000000000
timeByteSize == 8
fieldMod == 65536
nanosPerSecond == 1000000000
nanosPerMilli == 1000000
\* stands for math.MaxFloat64: above every value of the populations tried
MaxFloat64 == 2147483647

VARIABLES
  opts,        \* Options given to NewPinger (Count)
  id,          \* pinger.id
  stats,       \* *pinger.stats
  reportChan,  \* unbuffered: "open" or "closed"; the engine blocks at "report"
  errChan,     \* buffered, capacity 1
  stopReq,     \* the stop request handed over by pinger.Stop
  enginePC,    \* position of the goroutine running pinger.Ping
  seq,         \* Ping's local seq
  ping,        \* Ping's local ping: <<>> or <<the outcome recv returned>>
  conn,        \* the icmp.PacketConn: "none", "open", "closed"
  callerPC,    \* position of main: "select", "printStats", "returned", "exit2"
  sig,         \* number of signals buffered in main's sig channel (capacity 1)
  snapshot,    \* the Stats copy main got from pinger.Stats(), or <<>>
  \* history, never read by the program
  sent,        \* sequence numbers of the requests written to the transport
  emitted,     \* outcomes received from reportChan, in order
  errWrites,   \* number of sends on errChan
  fatal,       \* which failure ended the drive loop, "none" if none did
  strays,      \* [seq, err]: the attempts that read a reply parse rejected
  signals,     \* signals delivered so far
  stopAt,      \* <<enginePC, requests sent, totalCount>> when Stop was first
               \* called, or <<>>
  calc         \* the last call of a function of the codec or of the
               \* statistics: its arguments and its result

vars == <<opts, id, stats, reportChan, errChan, stopReq, enginePC, seq, ping, conn,
          callerPC, sig, snapshot, sent, emitted, errWrites, fatal, strays,
          signals, stopAt, calc>>

\* the state of the engine and of the caller
runVars == <<opts, id, stats, reportChan, errChan, stopReq, enginePC, seq, ping,
             conn, callerPC, sig, snapshot, sent, emitted, errWrites, fatal,
             strays, signals, stopAt>>


\* ------------------------------------------------------------ data types
\* (variant: only a negative timeout is replaced)
setDefaultsNegativeOnly(o) ==
  [Timeout |-> IF o.Timeout < 0 THEN DefaultTimeout ELSE o.Timeout,
   Count |-> IF o.Count < 0 THEN 0 ELSE o.Count,
   PacketSize |-> IF o.PacketSize <= 0 THEN DefaultPacketSize
                  ELSE o.PacketSize]

\* Options.setDefaults: the Options it leaves
setDefaults(o) ==
  [Timeout |-> IF o.Timeout <= 0 THEN DefaultTimeout ELSE o.Timeout,
   Count |-> IF o.Count < 0 THEN 0 ELSE o.Count,
   PacketSize |-> IF o.PacketSize <= 0 THEN DefaultPacketSize
                  ELSE o.PacketSize]

\* the test that ends the drive loop, with seq = s after seq++:
\* p.opts.Count != 0 && int(p.opts.Count) == seq
countBreaks(o, s) == o.Count # 0 /\ o.Count = s

\* the Options a caller can hand to NewPinger: Timeout is a signed
\* duration, Count and PacketSize are unsigned
OptionSamples ==
  [Timeout : ((0 - MaxTimeout)..MaxTimeout)
               \cup {DefaultTimeout, 2 * DefaultTimeout},
   Count : 0..MaxCount,
   PacketSize : 0..MaxSize]

\* Ping{Seq, Size, RTT, Timeout}
MkPing(s, size, rtt, timeout) ==
  [Seq |-> s, Size |-> size, RTT |-> rtt, Timeout |-> timeout]

\* &Stats{}
EmptyStats == [totalCount |-> 0, successCount |-> 0, rtts |-> <<>>]

\* (variant: the sample is not stored)
incSuccessNoSample(s, rtt) ==
  [totalCount |-> s.totalCount + 1,
   successCount |-> s.successCount + 1,
   rtts |-> s.rtts]

incSuccess(s, rtt) ==
  [totalCount |-> s.totalCount + 1,
   successCount |-> s.successCount + 1,
   rtts |-> Append(s.rtts, rtt)]

\* (variant: a timeout is not counted)
incTimeoutUncounted(s) == s

incTimeout(s) == [s EXCEPT !.totalCount = @ + 1]

\* float64 values: a quotient of integers, or NaN (what 0/0 gives)
NaN == [nan |-> TRUE, num |-> 0, den |-> 1]
Float(n) == [nan |-> FALSE, num |-> n, den |-> 1]

\* a / b on float64 operands that are integers, b >= 0
floatDiv(a, b) ==
  IF b = 0 THEN NaN ELSE [nan |-> FALSE, num |-> a, den |-> b]

\* float64 arithmetic on exact quotients, kept in lowest terms
RECURSIVE gcd(_, _)
gcd(a, b) == IF b = 0 THEN a ELSE gcd(b, a % b)

abs(n) == IF n < 0 THEN 0 - n ELSE n

lowest(num, den) ==
  LET g == gcd(abs(num), den)
  IN  [nan |-> FALSE, num |-> num \div g, den |-> den \div g]

fAdd(a, b) ==
  IF a.nan \/ b.nan THEN NaN
  ELSE lowest(a.num * b.den + b.num * a.den, a.den * b.den)

fSub(a, b) ==
  IF a.nan \/ b.nan THEN NaN
  ELSE lowest(a.num * b.den - b.num * a.den, a.den * b.den)

fMul(a, b) ==
  IF a.nan \/ b.nan THEN NaN ELSE lowest(a.num * b.num, a.den * b.den)

\* a / float64(n) for an integer n >= 0
fDivInt(a, n) ==
  IF a.nan \/ (n = 0 /\ a.num = 0) THEN NaN ELSE lowest(a.num, a.den * n)

fLess(a, b) == ~a.nan /\ ~b.nan /\ a.num * b.den < b.num * a.den

\* math.Min, math.Max, math.Abs, math.Pow(x, 2)
fMin(a, b) == IF fLess(b, a) THEN b ELSE a
fMax(a, b) == IF fLess(a, b) THEN b ELSE a
fAbs(a) == IF a.nan THEN NaN ELSE [a EXCEPT !.num = abs(a.num)]
fSquare(a) == fMul(a, a)

\* math.Sqrt(x), kept as its radicand
Sqrt(x) == [sqrtOf |-> x]

\* the reducer closures of Min, Max, Mean and StdDev
applyFn(fn, v, acc) ==
  CASE fn.op = "min" -> fMin(acc, v)
    [] fn.op = "max" -> fMax(acc, v)
    [] fn.op = "sum" -> fAdd(acc, v)
    [] fn.op = "sumDist" -> fAdd(acc, fSquare(fAbs(fSub(v, fn.mean))))

\* for _, v := range population { acc = fn(v, acc) }, from element k
RECURSIVE rangeFrom(_, _, _, _)
rangeFrom(population, k, acc, fn) ==
  IF k > Len(population) THEN acc
  ELSE rangeFrom(population, k + 1, applyFn(fn, population[k], acc), fn)

\* (variant: the empty population is not told apart)
reduceUnguarded(population, acc, fn) == rangeFrom(population, 1, acc, fn)

\* reduce
reduce(population, acc, fn) ==
  IF Len(population) = 0 THEN Float(0)
  ELSE rangeFrom(population, 1, acc, fn)

\* (variant: a minimum of 0 counts as not set yet, as in the loop that
\* RTTStats had before it used Min)
RECURSIVE MinZeroUnset(_, _, _)
MinZeroUnset(population, k, min) ==
  IF k > Len(population) THEN min
  ELSE MinZeroUnset(population, k + 1,
                    IF min.num = 0 \/ fLess(population[k], min)
                    THEN population[k] ELSE min)

MinInline(population) == MinZeroUnset(population, 1, Float(0))

\* math.Min over a population
Min(population) == reduce(population, Float(MaxFloat64), [op |-> "min"])

\* math.Max over a population
Max(population) == reduce(population, Float(0 - MaxFloat64), [op |-> "max"])

Mean(population) ==
  IF Len(population) = 0 THEN Float(0)
  ELSE fDivInt(reduce(population, Float(0), [op |-> "sum"]), Len(population))

StdDev(population) ==
  LET mean == Mean(population)
  IN  IF ~mean.nan /\ mean.num = 0 THEN Sqrt(Float(0))
      ELSE Sqrt(fDivInt(reduce(population, Float(0),
                               [op |-> "sumDist", mean |-> mean]),
                        Len(population)))

\* math.TimeInMillis: float64(d.Nanoseconds()) / 1e6
TimeInMillis(d) == lowest(d, nanosPerMilli)

\* Stats.RTTStats
RTTStats(s) ==
  LET rttsInMillis == [k \in 1..Len(s.rtts) |-> TimeInMillis(s.rtts[k])]
  IN  [min |-> Min(rttsInMillis), avg |-> Mean(rttsInMillis),
       max |-> Max(rttsInMillis), stddev |-> StdDev(rttsInMillis)]

\* the round-trip samples tried: whole milliseconds, in nanoseconds
DurationSamples == {k * nanosPerMilli : k \in (0 - MaxVal)..MaxVal}

\* (variant: the share received instead of the share lost)
PacketLossOfReceived(s) ==
  LET r == floatDiv(s.successCount, s.totalCount)
  IN  IF r.nan THEN NaN
      ELSE [nan |-> FALSE, num |-> r.num * 100, den |-> r.den]

\* Stats.PacketLoss: (1 - float64(successCount)/float64(totalCount)) * 100
PacketLoss(s) ==
  LET r == floatDiv(s.successCount, s.totalCount)
  IN  IF r.nan THEN NaN
      ELSE [nan |-> FALSE, num |-> (r.den - r.num) * 100, den |-> r.den]

\* len(pktBytes): the 8 bytes of ICMP echo header that Marshal writes and the
\* payload createPacket builds
pktLen(size) ==
  8 + (IF size - timeByteSize > 0 THEN size ELSE timeByteSize)

\* the sequence numbers a bounded run can reach
SeqRange == 0..(IF MaxCount > MaxSeq THEN MaxCount ELSE MaxSeq)

\* what a read can hand to parse: garbage, another ICMP type, or an echo
\* reply carrying some identifier and sequence
Replies ==
  {[wellFormed |-> FALSE, Type |-> "none", ID |-> 0, Seq |-> 0],
   [wellFormed |-> TRUE, Type |-> "destinationUnreachable", ID |-> 0, Seq |-> 0]}
  \cup [wellFormed : {TRUE}, Type : {"echoReply"}, ID : 0..MaxId, Seq : SeqRange]

\* (variant: the sequence of the reply is not compared)
parseIgnoresSeq(pid, s, res) ==
  IF ~res.wellFormed THEN "cannot parse response"
  ELSE IF res.Type # "echoReply" THEN "cannot parse response type"
  ELSE IF res.ID # pid THEN "unexpected response"
  ELSE "ok"

\* pinger.parse: "ok" or the error it returns
parse(pid, s, res) ==
  IF ~res.wellFormed THEN "cannot parse response"
  ELSE IF res.Type # "echoReply" THEN "cannot parse response type"
  ELSE IF res.ID # pid \/ res.Seq # s THEN "unexpected response"
  ELSE "ok"

\* ------------------------------------------------------------ timestamps
byteRadix == 2 ^ byteBits
wordMod == 2 ^ (timeByteSize * byteBits)
MinWord == 0 - (wordMod \div 2)
MaxWord == (wordMod \div 2) - 1

\* the value an int64 keeps of n: two's complement wrap-around
wrap(n) ==
  LET m == n % wordMod IN IF m > MaxWord THEN m - wordMod ELSE m

\* n >> k on a signed integer (arithmetic shift)
shiftRight(n, k) == n \div (2 ^ k)

\* n << k on an int64
shiftLeft(n, k) == wrap(n * (2 ^ k))

\* Go's / and % truncate toward zero
quo(n, d) == IF n >= 0 THEN n \div d ELSE 0 - ((0 - n) \div d)
rem(n, d) == n - d * quo(n, d)

\* (variant: the least significant byte is written first)
timeToBytesLittleEndian(nsec) ==
  [k \in 1..timeByteSize |->
     shiftRight(nsec, (k - 1) * byteBits) % byteRadix]

\* timeToBytes on t.UnixNano(): b[i] = byte((nsec >> ((7 - i) * 8)) & 0xff),
\* for i = k - 1
timeToBytes(nsec) ==
  [k \in 1..timeByteSize |->
     shiftRight(nsec, (7 - (k - 1)) * byteBits) % byteRadix]

\* the loop of bytesToTime: nsec += int64(b[i]) << ((7 - i) * 8), from byte k
RECURSIVE sumBytes(_, _, _)
sumBytes(b, k, nsec) ==
  IF k > timeByteSize THEN nsec
  ELSE sumBytes(b, k + 1,
                wrap(nsec + shiftLeft(b[k], (7 - (k - 1)) * byteBits)))

\* time.Unix(sec, nsec): the instant, with nsec brought into [0, 1e9)
timeUnix(sec, nsec) ==
  LET n == IF nsec < 0 \/ nsec >= nanosPerSecond
           THEN quo(nsec, nanosPerSecond) ELSE 0
      s1 == sec + n
      n1 == nsec - n * nanosPerSecond
  IN  IF n1 < 0
      THEN [sec |-> s1 - 1, nsec |-> n1 + nanosPerSecond]
      ELSE [sec |-> s1, nsec |-> n1]

\* bytesToTime
bytesToTime(b) ==
  LET nsec == sumBytes(b, 1, 0)
  IN  timeUnix(quo(nsec, nanosPerSecond), rem(nsec, nanosPerSecond))

\* Time.UnixNano
UnixNano(t) == t.sec * nanosPerSecond + t.nsec

\* the instants handed to the codec, as nanoseconds since the epoch
TimeSamples ==
  ((0 - MaxT)..MaxT)
  \cup {MinWord, MinWord + 1, MaxWord - 1, MaxWord}
  \cup UNION {{byteRadix ^ k, (byteRadix ^ k) - 1, 0 - (byteRadix ^ k)} :
                k \in 0..(timeByteSize - 1)}

\* createPacket(id, seq, size) at the instant now (time.Now().UnixNano()):
\* the error it returns and the echo request Marshal writes, whose
\* identifier and sequence fields hold 16 bits each
createPacket(pid, s, size, now) ==
  LET stamp == timeToBytes(now)
      remaining == size - Len(stamp)
      payload == IF remaining > 0
                 THEN stamp \o [k \in 1..remaining |-> 1]
                 ELSE stamp
  IN  [err |-> "none",
       pkt |-> [Type |-> "echo", Code |-> 0, ID |-> pid % fieldMod,
                Seq |-> s % fieldMod, Data |-> payload]]

\* ------------------------------------------------------------------ Init
Init ==
  /\ opts \in [Count : 0..MaxCount]
  /\ id \in 0..MaxId
  /\ stats = EmptyStats
  /\ reportChan = "open"
  /\ errChan = <<>>
  /\ stopReq = FALSE
  /\ enginePC = "listen"
  /\ seq = 0
  /\ ping = <<>>
  /\ conn = "none"
  /\ callerPC = "select"
  /\ sig = 0
  /\ snapshot = <<>>
  /\ sent = <<>>
  /\ emitted = <<>>
  /\ errWrites = 0
  /\ fatal = "none"
  /\ strays = {}
  /\ signals = 0
  /\ stopAt = <<>>
  /\ calc = [op |-> "none"]

\* the process lives until main returns or calls os.Exit
alive == callerPC \in {"select", "printStats"}

\* ---------------------------------------------------------- the engine
\* p.errChan <- err: the send blocks while the buffer (capacity 1) is full
ErrSend(kind) ==
  /\ Len(errChan) < 1
  /\ errChan' = Append(errChan, kind)
  /\ errWrites' = errWrites + 1
  /\ fatal' = kind

\* (variant: the stop request is looked for before the first cycle only)
StopPendingFirstCycleOnly == stopReq /\ seq = 0

\* the stop request the drive loop looks for at the start of a cycle
StopPending == stopReq

\* (variant: Stop records nothing)
StopIgnored ==
  /\ stopReq' = stopReq
  /\ stopAt' = IF stopAt = <<>>
                THEN <<enginePC, Len(sent), stats.totalCount>>
                ELSE stopAt

\* pinger.Stop
Stop ==
  /\ stopReq' = TRUE
  /\ stopAt' = IF stopAt = <<>>
                THEN <<enginePC, Len(sent), stats.totalCount>>
                ELSE stopAt

\* icmp.ListenPacket succeeds; defer conn.Close()
ListenOK ==
  /\ alive /\ enginePC = "listen"
  /\ conn' = "open"
  /\ enginePC' = "send"
  /\ UNCHANGED <<calc, opts, id, stats, reportChan, errChan, stopReq, seq, ping,
                 callerPC, sig, snapshot, sent, emitted, errWrites, fatal,
                 strays, signals, stopAt>>

\* icmp.ListenPacket fails
ListenFail ==
  /\ alive /\ enginePC = "listen"
  /\ ErrSend("listen")
  /\ enginePC' = "return"
  /\ UNCHANGED <<calc, opts, id, stats, reportChan, stopReq, seq, ping, conn,
                 callerPC, sig, snapshot, sent, emitted, strays, signals,
                 stopAt>>

\* a cycle starts with a stop request pending: leave the loop without sending
EngineStop ==
  /\ alive /\ enginePC = "send"
  /\ StopPending
  /\ enginePC' = "return"
  /\ UNCHANGED <<calc, opts, id, stats, reportChan, errChan, stopReq, seq, ping, conn,
                 callerPC, sig, snapshot, sent, emitted, errWrites, fatal,
                 strays, signals, stopAt>>

\* p.send: createPacket and conn.WriteTo succeed
SendOK ==
  /\ alive /\ enginePC = "send"
  /\ ~StopPending
  /\ opts.Count # 0 \/ seq <= MaxSeq
  /\ sent' = Append(sent, seq)
  /\ enginePC' = "recv"
  /\ UNCHANGED <<calc, opts, id, stats, reportChan, errChan, stopReq, seq, ping, conn,
                 callerPC, sig, snapshot, emitted, errWrites, fatal, strays,
                 signals, stopAt>>

\* (variant: the return after errChan <- err is missing)
SendFailContinues ==
  /\ alive /\ enginePC = "send"
  /\ ~StopPending
  /\ opts.Count # 0 \/ seq <= MaxSeq
  /\ ErrSend("send")
  /\ enginePC' = "recv"
  /\ UNCHANGED <<calc, opts, id, stats, reportChan, stopReq, seq, ping, conn,
                 callerPC, sig, snapshot, sent, emitted, strays, signals,
                 stopAt>>

\* p.send returns an error
SendFail ==
  /\ alive /\ enginePC = "send"
  /\ ~StopPending
  /\ opts.Count # 0 \/ seq <= MaxSeq
  /\ ErrSend("send")
  /\ enginePC' = "return"
  /\ UNCHANGED <<calc, opts, id, stats, reportChan, stopReq, seq, ping, conn,
                 callerPC, sig, snapshot, sent, emitted, strays, signals,
                 stopAt>>

\* p.recv: the read deadline expires
RecvTimeout ==
  /\ alive /\ enginePC = "recv"
  /\ stats' = incTimeout(stats)
  /\ ping' = <<MkPing(seq, 0, 0, TRUE)>>
  /\ enginePC' = "report"
  /\ UNCHANGED <<calc, opts, id, reportChan, errChan, stopReq, seq, conn, callerPC,
                 sig, snapshot, sent, emitted, errWrites, fatal, strays,
                 signals, stopAt>>

\* (variant: the drive loop goes on after the error was written)
RecvReadErrorGoesOn ==
  /\ alive /\ enginePC = "recv"
  /\ ErrSend("read")
  /\ enginePC' = "recv"
  /\ UNCHANGED <<calc, opts, id, stats, reportChan, stopReq, seq, ping, conn,
                 callerPC, sig, snapshot, sent, emitted, strays, signals,
                 stopAt>>

\* p.recv: ReadFrom fails with an error that is not a timeout
RecvReadError ==
  /\ alive /\ enginePC = "recv"
  /\ ErrSend("read")
  /\ enginePC' = "return"
  /\ UNCHANGED <<calc, opts, id, stats, reportChan, stopReq, seq, ping, conn,
                 callerPC, sig, snapshot, sent, emitted, strays, signals,
                 stopAt>>

\* (variant: the round-trip time is measured once for the statistics and
\* once more for the outcome)
RecvReplyMeasuredTwice ==
  /\ alive /\ enginePC = "recv"
  /\ \E res \in Replies, rtt \in 1..MaxRTT, rtt2 \in 1..MaxRTT :
       /\ parse(id, seq, res) = "ok"
       /\ stats' = incSuccess(stats, rtt)
       /\ ping' = <<MkPing(seq, pktLen(DefaultPacketSize), rtt2, FALSE)>>
  /\ enginePC' = "report"
  /\ UNCHANGED <<calc, opts, id, reportChan, errChan, stopReq, seq, conn, callerPC,
                 sig, snapshot, sent, emitted, errWrites, fatal, strays,
                 signals, stopAt>>

\* p.recv: a reply is read and parse accepts it
RecvReply ==
  /\ alive /\ enginePC = "recv"
  /\ \E res \in Replies, rtt \in 1..MaxRTT :
       /\ parse(id, seq, res) = "ok"
       /\ stats' = incSuccess(stats, rtt)
       /\ ping' = <<MkPing(seq, pktLen(DefaultPacketSize), rtt, FALSE)>>
  /\ enginePC' = "report"
  /\ UNCHANGED <<calc, opts, id, reportChan, errChan, stopReq, seq, conn, callerPC,
                 sig, snapshot, sent, emitted, errWrites, fatal, strays,
                 signals, stopAt>>

\* p.recv: a reply is read and parse rejects it; Ping hands the error to
\* errChan and returns
RecvRejected ==
  /\ alive /\ enginePC = "recv"
  /\ \E res \in Replies :
       /\ parse(id, seq, res) # "ok"
       /\ strays' = strays \cup {[seq |-> seq, err |-> parse(id, seq, res)]}
  /\ ErrSend("parse")
  /\ enginePC' = "return"
  /\ UNCHANGED <<calc, opts, id, stats, reportChan, stopReq, seq, ping, conn,
                 callerPC, sig, snapshot, sent, emitted, signals, stopAt>>

\* (variant: seq advances by two)
NextSeqSkip(s) == s + 2

\* seq++
NextSeq(s) == s + 1

\* if p.opts.Count != 0 && int(p.opts.Count) == seq { break }
CountReached(s) == countBreaks(opts, s)

\* (variant: reportChan has a buffer: the send does not wait for main, and
\* the outcome is still to be received when the engine goes on)
ReportBuffered ==
  /\ alive /\ enginePC = "report"
  /\ reportChan = "open"
  /\ ping' = <<>>
  /\ seq' = NextSeq(seq)
  /\ enginePC' = IF CountReached(seq') THEN "return" ELSE "sleep"
  /\ UNCHANGED <<calc, opts, id, stats, reportChan, errChan, stopReq, conn, callerPC,
                 sig, snapshot, sent, emitted, errWrites, fatal, strays, signals,
                 stopAt>>

\* p.reportChan <- ping meets main's case res, ok := <-results; then seq++
\* and the count test.  (Once reportChan is closed the same case receives
\* with ok = false and continues, which changes nothing.)
Report ==
  /\ alive /\ enginePC = "report" /\ callerPC = "select"
  /\ reportChan = "open"
  /\ emitted' = Append(emitted, ping[1])
  /\ ping' = <<>>
  /\ seq' = NextSeq(seq)
  /\ enginePC' = IF CountReached(seq') THEN "return" ELSE "sleep"
  /\ UNCHANGED <<calc, opts, id, stats, reportChan, errChan, stopReq, conn, callerPC,
                 sig, snapshot, sent, errWrites, fatal, strays, signals,
                 stopAt>>

\* time.Sleep(time.Second) is over
Sleep ==
  /\ alive /\ enginePC = "sleep"
  /\ enginePC' = "send"
  /\ UNCHANGED <<calc, opts, id, stats, reportChan, errChan, stopReq, seq, ping, conn,
                 callerPC, sig, snapshot, sent, emitted, errWrites, fatal,
                 strays, signals, stopAt>>

\* (variant: conn.Close() is not deferred)
ReturnLeak ==
  /\ alive /\ enginePC = "return"
  /\ reportChan' = "closed"
  /\ enginePC' = "notify"
  /\ UNCHANGED <<calc, opts, id, stats, errChan, stopReq, seq, ping, conn, callerPC,
                 sig, snapshot, sent, emitted, errWrites, fatal, strays,
                 signals, stopAt>>

\* Ping returns: the deferred conn.Close() (if it was registered), then the
\* deferred close(p.reportChan)
Return ==
  /\ alive /\ enginePC = "return"
  /\ conn' = IF conn = "open" THEN "closed" ELSE conn
  /\ reportChan' = "closed"
  /\ enginePC' = "notify"
  /\ UNCHANGED <<calc, opts, id, stats, errChan, stopReq, seq, ping, callerPC, sig,
                 snapshot, sent, emitted, errWrites, fatal, strays, signals,
                 stopAt>>

\* ------------------------------------------------------------- the caller
\* the goroutine's done <- struct{}{} meets main's case <-done: stop = true
Done ==
  /\ enginePC = "notify" /\ callerPC = "select"
  /\ enginePC' = "exited"
  /\ callerPC' = "printStats"
  /\ UNCHANGED <<calc, opts, id, stats, reportChan, errChan, stopReq, seq, ping, conn,
                 sig, snapshot, sent, emitted, errWrites, fatal, strays,
                 signals, stopAt>>

\* SIGINT or SIGTERM is delivered: signal.Notify sends without blocking on a
\* channel of capacity 1
Signal ==
  /\ alive /\ signals < MaxSignals
  /\ signals' = signals + 1
  /\ sig' = 1
  /\ UNCHANGED <<calc, opts, id, stats, reportChan, errChan, stopReq, enginePC, seq,
                 ping, conn, callerPC, snapshot, sent, emitted, errWrites,
                 fatal, strays, stopAt>>

\* (variant: the signal case leaves the select loop itself)
CallerSigBreaks ==
  /\ callerPC = "select" /\ sig > 0
  /\ sig' = sig - 1
  /\ callerPC' = "printStats"
  /\ UNCHANGED <<calc, opts, id, stats, reportChan, errChan, stopReq, enginePC, seq,
                 ping, conn, snapshot, sent, emitted, errWrites, fatal, strays,
                 signals, stopAt>>

\* case <-sig: pinger.Stop()
CallerSig ==
  /\ callerPC = "select" /\ sig > 0
  /\ sig' = sig - 1
  /\ Stop
  /\ UNCHANGED <<calc, opts, id, stats, reportChan, errChan, enginePC, seq, ping,
                 conn, callerPC, snapshot, sent, emitted, errWrites, fatal,
                 strays, signals>>

\* case err, ok := <-errors: print it and os.Exit(2)
CallerError ==
  /\ callerPC = "select" /\ Len(errChan) > 0
  /\ errChan' = Tail(errChan)
  /\ callerPC' = "exit2"
  /\ UNCHANGED <<calc, opts, id, stats, reportChan, stopReq, enginePC, seq, ping,
                 conn, sig, snapshot, sent, emitted, errWrites, fatal, strays,
                 signals, stopAt>>

\* printStats(host, pinger.Stats()): Stats() copies *p.stats; main returns
PrintStats ==
  /\ callerPC = "printStats"
  /\ snapshot' = <<stats>>
  /\ callerPC' = "returned"
  /\ UNCHANGED <<calc, opts, id, stats, reportChan, errChan, stopReq, enginePC, seq,
                 ping, conn, sig, sent, emitted, errWrites, fatal, strays,
                 signals, stopAt>>

Next ==
  \/ ListenOK \/ ListenFail
  \/ EngineStop
  \/ SendOK \/ SendFail
  \/ RecvTimeout \/ RecvReadError \/ RecvReply \/ RecvRejected
  \/ Report \/ Sleep \/ Return
  \/ Done \/ Signal \/ CallerSig \/ CallerError \/ PrintStats

Spec == Init /\ [][Next]_vars

\* the Go scheduler runs every goroutine that can take a step; the select in
\* main picks among its ready cases at random, so a case that stays ready is
\* chosen eventually
FairSpec ==
  /\ Spec
  /\ WF_vars(ListenOK \/ ListenFail)
  /\ WF_vars(EngineStop)
  /\ WF_vars(SendOK \/ SendFail)
  /\ WF_vars(RecvTimeout \/ RecvReadError \/ RecvReply \/ RecvRejected)
  /\ WF_vars(Report) /\ WF_vars(Sleep) /\ WF_vars(Return)
  /\ WF_vars(Done) /\ WF_vars(CallerSig) /\ WF_vars(CallerError)
  /\ WF_vars(PrintStats)

\* a caller that never takes the case err, ok := <-errors of its select
UnreadErrNext ==
  \/ ListenOK \/ ListenFail
  \/ EngineStop
  \/ SendOK \/ SendFail
  \/ RecvTimeout \/ RecvReadError \/ RecvReply \/ RecvRejected
  \/ Report \/ Sleep \/ Return
  \/ Done \/ Signal \/ CallerSig \/ PrintStats

UnreadErrSpec ==
  /\ Init /\ [][UnreadErrNext]_vars
  /\ WF_vars(ListenOK \/ ListenFail)
  /\ WF_vars(EngineStop)
  /\ WF_vars(SendOK \/ SendFail)
  /\ WF_vars(RecvTimeout \/ RecvReadError \/ RecvReply \/ RecvRejected)
  /\ WF_vars(Report) /\ WF_vars(Sleep) /\ WF_vars(Return)
  /\ WF_vars(Done) /\ WF_vars(CallerSig) /\ WF_vars(PrintStats)

TypeOK ==
  /\ opts.Count \in 0..MaxCount
  /\ enginePC \in {"listen", "send", "recv", "report", "sleep", "return",
                    "notify", "exited"}
  /\ callerPC \in {"select", "printStats", "returned", "exit2"}
  /\ conn \in {"none", "open", "closed"}
  /\ reportChan \in {"open", "closed"}
  /\ Len(errChan) <= 1
  /\ sig \in 0..1

\* ------------------------------------- the codec and the statistics alone
\* p.parse(seq, resBytes) on a pinger with identifier pid
CallParse ==
  /\ calc.op = "none"
  /\ \E pid \in 0..MaxId, s \in SeqRange, res \in Replies :
       calc' = [op |-> "parse", pid |-> pid, seq |-> s, res |-> res,
                out |-> parse(pid, s, res)]
  /\ UNCHANGED runVars

\* bytesToTime(timeToBytes(t))
CallTime ==
  /\ calc.op = "none"
  /\ \E t \in TimeSamples :
       calc' = [op |-> "time", t |-> t, bytes |-> timeToBytes(t),
                back |-> bytesToTime(timeToBytes(t))]
  /\ UNCHANGED runVars

\* createPacket(p.id, seq, int(p.opts.PacketSize)); setDefaults leaves no
\* PacketSize of 0
CallCreatePacket ==
  /\ calc.op = "none"
  /\ \E pid \in 0..MaxId, s \in SeqRange, size \in 1..MaxSize,
        now \in TimeSamples :
       calc' = [op |-> "createPacket", pid |-> pid, seq |-> s, size |-> size,
                now |-> now, out |-> createPacket(pid, s, size, now)]
  /\ UNCHANGED runVars

\* Stats.PacketLoss on a Stats, and on the same Stats after one more timeout
CallPacketLoss ==
  /\ calc.op = "none"
  /\ \E total \in 0..MaxTotal :
       \E success \in 0..total :
         LET s == [totalCount |-> total, successCount |-> success,
                   rtts |-> [k \in 1..success |-> 1]]
         IN  calc' = [op |-> "packetLoss", stats |-> s, out |-> PacketLoss(s),
                      after |-> PacketLoss(incTimeout(s))]
  /\ UNCHANGED runVars

\* stats.RTTStats() on a Stats holding the samples rtts
CallRTTStats ==
  /\ calc.op = "none"
  /\ \E n \in 0..MaxPop :
       \E rtts \in [1..n -> DurationSamples] :
         LET s == [totalCount |-> n, successCount |-> n, rtts |-> rtts]
         IN  calc' = [op |-> "rttStats", rtts |-> rtts,
                      population |-> [k \in 1..n |-> TimeInMillis(rtts[k])],
                      out |-> RTTStats(s)]
  /\ UNCHANGED runVars

\* the sequence numbers tried on the codec: those of a short run and those
\* around the end of the 16-bit field, which a run with Count = 0 reaches
EchoSeqSamples == SeqRange \cup {fieldMod - 1, fieldMod, fieldMod + 1}

\* the reply of a responder that echoes the request verbatim: an echo
\* reply with the identifier and the sequence fields of the request
echoOf(pkt) ==
  [wellFormed |-> TRUE, Type |-> "echoReply", ID |-> pkt.ID, Seq |-> pkt.Seq]

\* one attempt against such a responder: p.send builds the request with
\* createPacket(p.id, seq, size), p.recv hands the reply to p.parse(seq, ..)
CallEcho ==
  /\ calc.op = "none"
  /\ \E pid \in 0..MaxId, s \in EchoSeqSamples, now \in {0, MaxT} :
       LET req == createPacket(pid, s, DefaultPacketSize, now)
       IN  calc' = [op |-> "echo", pid |-> pid, seq |-> s, request |-> req.pkt,
                    out |-> parse(pid, s, echoOf(req.pkt))]
  /\ UNCHANGED runVars

\* NewPinger(opts): opts.setDefaults(), and the values of seq at which the
\* count test of the drive loop would leave the loop
CallSetDefaults ==
  /\ calc.op = "none"
  /\ \E o \in OptionSamples :
       calc' = [op |-> "setDefaults", opts |-> o, out |-> setDefaults(o),
                breaks |-> {s \in 1..(MaxSeq + MaxCount + 1) :
                              countBreaks(setDefaults(o), s)}]
  /\ UNCHANGED runVars

FnNext ==
  \/ CallSetDefaults
  \/ CallParse
  \/ CallTime
  \/ CallCreatePacket
  \/ CallPacketLoss
  \/ CallRTTStats
  \/ CallEcho

\* every function called once, on every argument of the bounded sets
FnSpec == Init /\ [][FnNext]_vars

\* ----------------------------------------- Stats and its copy in memory
\* the Stats structs and the arrays behind their rtts slices are objects of
\* the heap; a slice is [ptr, len, cap] with ptr = 0 for nil

\* the capacity append gives a slice that is full (small slices double)
growCap(cap) == IF cap = 0 THEN 1 ELSE 2 * cap

\* append(sl, v): the arrays and the slice after it.  With room left the
\* value is written behind the last element of the same array; otherwise
\* the elements move to a new array
appendSlice(arrays, sl, v) ==
  IF sl.len < sl.cap
  THEN [arrays |-> [arrays EXCEPT ![sl.ptr][sl.len + 1] = v],
        slice |-> [sl EXCEPT !.len = @ + 1]]
  ELSE LET newcap == growCap(sl.cap)
           old == IF sl.ptr = 0 THEN <<>> ELSE arrays[sl.ptr]
           new == [k \in 1..newcap |->
                     IF k <= sl.len THEN old[k]
                     ELSE IF k = sl.len + 1 THEN v ELSE 0]
       IN  [arrays |-> Append(arrays, new),
            slice |-> [ptr |-> Len(arrays) + 1, len |-> sl.len + 1,
                       cap |-> newcap]]

\* what the methods of the Stats at ptr see: the counters and rtts[0:len]
View(m, ptr) ==
  LET st == m.objs[ptr]
  IN  [totalCount |-> st.totalCount,
       successCount |-> st.successCount,
       rtts |-> IF st.rtts.ptr = 0 THEN <<>>
                ELSE SubSeq(m.arrays[st.rtts.ptr], 1, st.rtts.len)]

\* NewPinger: stats: &Stats{}
StatsNew ==
  /\ calc.op = "none"
  /\ calc' = [op |-> "stats",
              objs |-> <<[totalCount |-> 0, successCount |-> 0,
                          rtts |-> [ptr |-> 0, len |-> 0, cap |-> 0]]>>,
              arrays |-> <<>>, pstats |-> 1, snap |-> <<>>, ops |-> 0]
  /\ UNCHANGED runVars

\* p.stats.incSuccess(rtt)
StatsIncSuccess ==
  /\ calc.op = "stats" /\ calc.ops < MaxOps
  /\ \E rtt \in 1..MaxRTT :
       LET st == calc.objs[calc.pstats]
           app == appendSlice(calc.arrays, st.rtts, rtt)
       IN  calc' = [calc EXCEPT
                      !.objs[calc.pstats] =
                         [totalCount |-> st.totalCount + 1,
                          successCount |-> st.successCount + 1,
                          rtts |-> app.slice],
                      !.arrays = app.arrays,
                      !.ops = @ + 1]
  /\ UNCHANGED runVars

\* p.stats.incTimeout()
StatsIncTimeout ==
  /\ calc.op = "stats" /\ calc.ops < MaxOps
  /\ calc' = [calc EXCEPT !.objs[calc.pstats].totalCount = @ + 1,
                          !.ops = @ + 1]
  /\ UNCHANGED runVars

\* (variant: Stats hands out p.stats itself)
StatsLive ==
  /\ calc.op = "stats" /\ calc.snap = <<>>
  /\ calc' = [calc EXCEPT
                !.snap = <<[ptr |-> calc.pstats,
                            was |-> View(calc, calc.pstats)]>>]
  /\ UNCHANGED runVars

\* pinger.Stats: return *p.stats, a new struct with the fields of the
\* engine's; `was` keeps what the caller saw in it at that moment
StatsCopy ==
  /\ calc.op = "stats" /\ calc.snap = <<>>
  /\ calc' = [calc EXCEPT
                !.objs = Append(@, calc.objs[calc.pstats]),
                !.snap = <<[ptr |-> Len(calc.objs) + 1,
                            was |-> View(calc, calc.pstats)]>>]
  /\ UNCHANGED runVars

StatsNext ==
  \/ StatsNew
  \/ StatsIncSuccess
  \/ StatsIncTimeout
  \/ StatsCopy

\* an engine that records attempts while a caller holds a copy of its Stats
StatsSpec == Init /\ [][StatsNext]_vars

\* ------------------------------------------------------------ properties
\* pinger.Ping has returned (its deferred calls have run)
Returned == enginePC \in {"notify", "exited"}

\* the failures the error taxonomy calls fatal
TransportFailure == fatal \in {"listen", "send", "read"}

\* C1: with Count = N > 0 and no transport failure (and no stop request), a
\* finished run has sent exactly N requests and emitted exactly N outcomes
\* and has closed the outcome stream.
C1_ExactlyCountAttempts ==
  (opts.Count > 0 /\ Returned /\ ~TransportFailure /\ ~stopReq)
    => /\ Len(sent) = opts.Count
       /\ Len(emitted) = opts.Count
       /\ reportChan = "closed"

\* C2: the outcomes emitted carry the sequence numbers 0, 1, ..., k-1 in that
\* order, the requests sent carry 0, 1, ... each exactly once, at most one
\* request is ahead of the outcomes, and when Ping has returned k is the
\* number of attempts recorded.
C2_SequenceNumbers ==
  /\ \A i \in 1..Len(emitted) : emitted[i].Seq = i - 1
  /\ \A i \in 1..Len(sent) : sent[i] = i - 1
  /\ Len(sent) - Len(emitted) \in {0, 1}
  /\ Returned => Len(emitted) = stats.totalCount

C2_Witness ==
  /\ Len(emitted) >= 2
  /\ emitted[1].Timeout
  /\ ~emitted[2].Timeout

\* C3: a reply that parse rejects is not fatal: it never puts an error in
\* the terminal-error slot and never ends the run before the count is
\* reached or a stop is requested.
C3_RejectedReplyNonFatal ==
  strays # {}
    => /\ fatal # "parse"
       /\ (Returned /\ fatal = "none") => (stopReq \/ CountReached(seq))

\* C4: an attempt that read a reply with a mismatched identifier or sequence
\* still resolves, unless the transport fails: when Ping has returned,
\* exactly one outcome with that attempt's sequence has been emitted.
C4_MismatchKeepsWaiting ==
  \A st \in strays :
    (st.err = "unexpected response" /\ Returned /\ ~TransportFailure)
      => Cardinality({i \in 1..Len(emitted) : emitted[i].Seq = st.seq}) = 1

\* C5: the error slot is written at most once; a transport failure writes
\* it, leaves the drive loop and, once Ping has returned, the outcome stream
\* is closed; after the slot is written no outcome is emitted and no request
\* is sent.
C5_FatalTerminates ==
  /\ [](errWrites <= 1)
  /\ [](TransportFailure
          => errWrites = 1 /\ enginePC \in {"return", "notify", "exited"})
  /\ []((TransportFailure /\ Returned) => reportChan = "closed")
  /\ [][errWrites >= 1 => (emitted' = emitted /\ sent' = sent)]_vars

C5_Witness ==
  /\ fatal = "read"
  /\ Returned
  /\ errWrites = 1
  /\ Len(emitted) >= 1

\* C6 (as stated): a stop requested before any attempt has completed, while
\* the engine has not finished, leads to no request sent, Stats at zero and
\* the stream closed with no terminal error.
C6_StopBeforeFirstCompletion ==
  (/\ stopAt # <<>>
   /\ stopAt[1] \in {"listen", "send", "recv"}
   /\ stopAt[3] = 0
   /\ Returned)
    => /\ Len(sent) = 0
       /\ stats = EmptyStats
       /\ reportChan = "closed"
       /\ errWrites = 0

\* C6 (amended): a stop requested before the first cycle starts leads to no
\* request sent, Stats at zero and the stream closed; no terminal error is
\* written unless the transport could not be opened.
C6_StopBeforeFirstCycle ==
  (/\ stopAt # <<>>
   /\ stopAt[1] \in {"listen", "send"}
   /\ stopAt[2] = 0
   /\ Returned)
    => /\ Len(sent) = 0
       /\ stats = EmptyStats
       /\ reportChan = "closed"
       /\ (conn # "none" => errWrites = 0)

C6_Witness ==
  /\ stopAt # <<>>
  /\ stopAt[1] = "send"
  /\ stopAt[2] = 0
  /\ Returned
  /\ conn = "closed"
  /\ reportChan = "closed"
  /\ errWrites = 0

\* a stop was requested while the drive loop was in its inter-probe sleep
StoppedInSleep == stopAt # <<>> /\ stopAt[1] = "sleep"

\* C7: after a stop requested during the inter-probe sleep no further
\* request is sent, and the outcome stream eventually closes.
C7_StopDuringSleep ==
  /\ [](StoppedInSleep => Len(sent) = stopAt[2])
  /\ (StoppedInSleep ~> reportChan = "closed")

C7_Witness ==
  /\ StoppedInSleep
  /\ opts.Count = 0
  /\ reportChan = "closed"
  /\ Len(sent) = stopAt[2]

\* C8: once the error slot has been written the caller never leaves its
\* select loop through the done case: it does not go on to print statistics.
C8_ErrorSurfaced ==
  errWrites > 0 => callerPC \notin {"printStats", "returned"}

\* C9: the caller reads Stats only after Ping has returned and the outcome
\* stream is closed, the copy it gets is the final Stats, and Stats does not
\* change from the moment the caller has left its select loop.
C9_StatsReadAfterReturn ==
  /\ [](callerPC \in {"printStats", "returned"}
          => enginePC = "exited" /\ reportChan = "closed")
  /\ [](snapshot # <<>> => snapshot[1] = stats)
  /\ [][(callerPC \in {"printStats", "returned"}) => (stats' = stats)]_vars

C9_Witness ==
  /\ snapshot # <<>>
  /\ snapshot[1].totalCount >= 1
  /\ callerPC = "returned"

\* C10: when Ping has returned the endpoint is not open: it was closed, or
\* it was never opened because ListenPacket failed.
C10_ConnClosedOnExit ==
  Returned => (conn = "closed" \/ (conn = "none" /\ fatal = "listen"))

C10_Witness ==
  /\ Returned
  /\ fatal = "send"
  /\ conn = "closed"

\* the timeout outcomes emitted so far
TimeoutOutcomes == {i \in 1..Len(emitted) : emitted[i].Timeout}

\* C11: when Ping has returned (the stream is closed, with or without a
\* terminal error) Transmitted() is Received() plus the number of timeout
\* outcomes, and Transmitted() is the number of outcomes emitted.
C11_TransmittedBalance ==
  Returned
    => /\ reportChan = "closed"
       /\ stats.totalCount = stats.successCount + Cardinality(TimeoutOutcomes)
       /\ stats.totalCount = Len(emitted)

C11_Witness ==
  /\ Returned
  /\ fatal = "read"
  /\ Len(emitted) >= 2
  /\ Cardinality(TimeoutOutcomes) = 1
  /\ stats.successCount = 1

\* C12: parse accepts a buffer exactly when it parses as an ICMPv4 message,
\* is an Echo Reply and carries the expected identifier and the expected
\* sequence; each of the three failures gives an error.
C12_ParseAcceptsIff ==
  calc.op = "parse"
    => /\ (calc.out = "ok")
            <=> /\ calc.res.wellFormed
                /\ calc.res.Type = "echoReply"
                /\ calc.res.ID = calc.pid
                /\ calc.res.Seq = calc.seq
       /\ ~calc.res.wellFormed => calc.out = "cannot parse response"
       /\ (calc.res.wellFormed /\ calc.res.Type # "echoReply")
            => calc.out = "cannot parse response type"
       /\ (/\ calc.res.wellFormed
           /\ calc.res.Type = "echoReply"
           /\ (calc.res.ID # calc.pid \/ calc.res.Seq # calc.seq))
            => calc.out = "unexpected response"

C12_Witness ==
  /\ calc.op = "parse"
  /\ calc.res.Type = "echoReply"
  /\ calc.res.ID = calc.pid
  /\ calc.res.Seq # calc.seq
  /\ calc.out = "unexpected response"

\* the unsigned number the bytes b spell, most significant byte first
RECURSIVE BigEndianValue(_, _)
BigEndianValue(b, k) ==
  IF k > Len(b) THEN 0
  ELSE b[k] * (byteRadix ^ (Len(b) - k)) + BigEndianValue(b, k + 1)

\* C13: timeToBytes writes the instant as 8 bytes, most significant first
\* (two's complement for an instant before the epoch), and bytesToTime
\* recovers the instant exactly.
C13_TimestampRoundTrip ==
  calc.op = "time"
    => /\ Len(calc.bytes) = timeByteSize
       /\ \A k \in 1..timeByteSize : calc.bytes[k] \in 0..(byteRadix - 1)
       /\ BigEndianValue(calc.bytes, 1) = calc.t % wordMod
       /\ calc.back.nsec \in 0..(nanosPerSecond - 1)
       /\ UnixNano(calc.back) = calc.t

C13_Witness ==
  /\ calc.op = "time"
  /\ calc.t = MinWord + 1
  /\ calc.bytes[1] = byteRadix \div 2
  /\ calc.bytes[timeByteSize] = 1
  /\ UnixNano(calc.back) = calc.t

\* C14: createPacket returns an error, and no packet to send, whenever the
\* size asked for is smaller than the timestamp field.
C14_SmallSizeFails ==
  (calc.op = "createPacket" /\ calc.size < timeByteSize)
    => calc.out.err # "none"

\* C15: the payload of the request createPacket builds is exactly size bytes
\* long, the timestamp followed by size-8 filler bytes, and the request
\* carries the identifier and the sequence given.
C15_PayloadIsSizeBytes ==
  (calc.op = "createPacket" /\ calc.out.err = "none")
    => LET data == calc.out.pkt.Data IN
       /\ Len(data) = calc.size
       /\ SubSeq(data, 1, timeByteSize) = timeToBytes(calc.now)
       /\ \A k \in (timeByteSize + 1)..Len(data) : data[k] = 1
       /\ calc.out.pkt.ID = calc.pid
       /\ calc.out.pkt.Seq = calc.seq

\* C16: the packet loss printed for a run without attempts is a defined
\* value, not the result of dividing zero by zero.
C16_PacketLossZeroAttempts ==
  (snapshot # <<>> /\ snapshot[1].totalCount = 0)
    => ~PacketLoss(snapshot[1]).nan

\* a <= b on floats that are not NaN
FloatLeq(a, b) == a.num * b.den <= b.num * a.den

\* C17: with totalCount > 0, PacketLoss is exactly 0 when every attempt
\* succeeded and exactly 100 when every attempt timed out, and it does not
\* decrease when one more timeout is recorded.
C17_PacketLossEnds ==
  (calc.op = "packetLoss" /\ calc.stats.totalCount > 0)
    => /\ ~calc.out.nan /\ ~calc.after.nan
       /\ calc.stats.successCount = calc.stats.totalCount
            => calc.out.num = 0
       /\ calc.stats.successCount = 0
            => calc.out.num = 100 * calc.out.den
       /\ FloatLeq(calc.out, calc.after)

C17_Witness ==
  /\ calc.op = "packetLoss"
  /\ calc.stats.totalCount = 3
  /\ calc.stats.successCount = 2
  /\ calc.out.num * 3 = 100 * calc.out.den
  /\ calc.after.num * 2 = 100 * calc.after.den

IsZero(x) == ~x.nan /\ x.num = 0

\* C18: for the empty sample set RTTStats returns 0 for the minimum, the
\* mean, the maximum and the standard deviation.
C18_EmptySamplesAllZero ==
  (calc.op = "rttStats" /\ Len(calc.rtts) = 0)
    => /\ IsZero(calc.out.min)
       /\ IsZero(calc.out.avg)
       /\ IsZero(calc.out.max)
       /\ IsZero(calc.out.stddev.sqrtOf)

C18_Witness ==
  /\ calc.op = "rttStats"
  /\ calc.rtts = <<>>
  /\ calc.out.min = Float(0)
  /\ calc.out.max = Float(0)

RECURSIVE ScaledSquares(_, _, _)
ScaledSquares(pop, k, total) ==
  IF k > Len(pop) THEN 0
  ELSE (Len(pop) * pop[k].num - total) * (Len(pop) * pop[k].num - total)
       + ScaledSquares(pop, k + 1, total)

RECURSIVE Total(_, _)
Total(pop, k) == IF k > Len(pop) THEN 0 ELSE pop[k].num + Total(pop, k + 1)

\* C20: for a non-empty population of n values StdDev is the population
\* standard deviation: its square times n is the sum of the squared
\* deviations from the mean; it is 0 exactly when all values are equal.
C20_PopulationStdDev ==
  (calc.op = "rttStats" /\ Len(calc.rtts) > 0)
    => LET pop == calc.population
           n == Len(pop)
           sq == calc.out.stddev.sqrtOf
       IN  /\ ~sq.nan
           /\ sq.num * n * n * n = sq.den * ScaledSquares(pop, 1, Total(pop, 1))
           /\ IsZero(sq) <=> \A k \in 1..n : pop[k] = pop[1]

\* C21: construction replaces a timeout <= 0 by one second and a packet
\* size of 0 by 56, keeps every positive timeout and packet size, and keeps
\* the count; with a count of 0 the count test never leaves the drive loop.
C21_DefaultsApplied ==
  calc.op = "setDefaults"
    => /\ calc.out.Timeout =
            (IF calc.opts.Timeout <= 0 THEN 1000000000 ELSE calc.opts.Timeout)
       /\ calc.out.PacketSize =
            (IF calc.opts.PacketSize = 0 THEN 56 ELSE calc.opts.PacketSize)
       /\ calc.out.Count = calc.opts.Count
       /\ calc.opts.Count = 0 => calc.breaks = {}
       /\ calc.opts.Count > 0 => calc.breaks = {calc.opts.Count}

C21_Witness ==
  /\ calc.op = "setDefaults"
  /\ calc.opts = [Timeout |-> 0, Count |-> 0, PacketSize |-> 0]
  /\ calc.out = [Timeout |-> DefaultTimeout, Count |-> 0,
                 PacketSize |-> DefaultPacketSize]

\* the number of timeout outcomes in a sequence of outcomes
CountTimeouts(outs) == Cardinality({i \in 1..Len(outs) : outs[i].Timeout})

\* C22: in the step that hands the outcome with sequence s to the consumer
\* the statistics already count that attempt and no later one
\* (totalCount = s + 1) and are not changed by the step; a timeout outcome
\* comes after incTimeout (the timeouts counted are the timeout outcomes
\* handed over, this one included) and a success outcome after incSuccess
\* with the same RTT (the last sample stored is the RTT of the outcome).
C22_MutateThenEmit ==
  [][(emitted' # emitted)
       => LET o == emitted'[Len(emitted')]
              n == Len(stats.rtts)
          IN  /\ emitted' = Append(emitted, o)
              /\ stats.totalCount = o.Seq + 1
              /\ stats' = stats
              /\ stats.totalCount - stats.successCount = CountTimeouts(emitted')
              /\ stats.successCount = Len(emitted') - CountTimeouts(emitted')
              /\ ~o.Timeout => (n = stats.successCount /\ stats.rtts[n] = o.RTT)]_vars

C22_Witness ==
  /\ Len(emitted) = 2
  /\ ~emitted[1].Timeout /\ emitted[1].RTT = 2
  /\ emitted[2].Timeout
  /\ stats.totalCount = 2
  /\ stats.rtts = <<2>>

\* the timeouts recorded so far: those handed over and the one of the
\* outcome that waits to be handed over
TimeoutsRecorded ==
  Cardinality(TimeoutOutcomes)
    + (IF ping # <<>> /\ ping[1].Timeout THEN 1 ELSE 0)

\* an attempt is under way from the moment its request is written until its
\* outcome is recorded
AttemptStarted == enginePC = "recv"

\* C23: in every state totalCount = successCount + the timeouts recorded,
\* the samples stored are successCount many, the sequence of the next
\* request is totalCount while no attempt is under way and before the drive
\* loop ends, and the sequence of the request of the attempt under way is
\* totalCount (no attempt after it is counted yet).
C23_StatsInvariants ==
  /\ stats.totalCount = stats.successCount + TimeoutsRecorded
  /\ Len(stats.rtts) = stats.successCount
  /\ enginePC = "send" => seq = stats.totalCount
  /\ AttemptStarted => (sent[Len(sent)] = stats.totalCount /\ seq = stats.totalCount)
  /\ \A i \in 1..Len(sent) : sent[i] = i - 1
  /\ Len(sent) \in {stats.totalCount, stats.totalCount + 1}

C23_Witness ==
  /\ AttemptStarted
  /\ stats.totalCount = 2
  /\ stats.successCount = 1
  /\ sent = <<0, 1, 2>>

\* C24: what the caller sees in the Stats it got from Stats(), counters and
\* samples, stays what it was when Stats() returned, whatever incSuccess and
\* incTimeout the engine performs afterwards.
C24_StatsIsACopy ==
  (calc.op = "stats" /\ calc.snap # <<>>)
    => View(calc, calc.snap[1].ptr) = calc.snap[1].was

\* the copy shares the array of its samples with the engine's Stats, and
\* the engine has appended to that array and counted a timeout since
C24_Witness ==
  /\ calc.op = "stats" /\ calc.snap # <<>>
  /\ LET live == calc.objs[calc.pstats]
         copy == calc.objs[calc.snap[1].ptr]
     IN  /\ copy.rtts.ptr # 0
         /\ copy.rtts.ptr = live.rtts.ptr
         /\ live.rtts.len > copy.rtts.len
         /\ live.totalCount > copy.totalCount + 1

\* C25: for every sequence value the drive loop can reach, 65536 and above
\* included, parse accepts the reply of a responder that echoes the request
\* for that sequence verbatim.
C25_EchoAcceptedForEverySeq ==
  calc.op = "echo" => calc.out = "ok"

\* C26: the request for sequence s+1 is written only after the outcome for
\* s was received by the consumer, the stream is closed only after every
\* outcome recorded was received, and at most one outcome waits to be
\* received.
C26_SynchronousHandOff ==
  /\ \A i \in 1..Len(sent) : sent[i] <= Len(emitted)
  /\ reportChan = "closed" => (ping = <<>> /\ stats.totalCount = Len(emitted))
  /\ stats.totalCount - Len(emitted) \in {0, 1}
  /\ stats.totalCount - Len(emitted) = 1
       <=> (enginePC = "report" /\ ping # <<>>)

C26_Witness ==
  /\ enginePC = "report"
  /\ ping # <<>> /\ ping[1].Seq = 1
  /\ Len(emitted) = 1
  /\ sent = <<0, 1>>

\* the engine is where its next step can be a write to the error slot
MayWriteError == enginePC \in {"listen", "send", "recv"}

\* C27: the error slot is written at most once and is empty whenever the
\* engine can write to it, so the write never blocks; with a caller that
\* never reads the slot, Ping still returns and the outcome stream is closed
\* after a fatal error.
C27_ErrorWriteNeverBlocks ==
  /\ [](errWrites <= 1)
  /\ [](MayWriteError => Len(errChan) = 0)
  /\ (fatal # "none") ~> (Returned /\ reportChan = "closed")

C27_Witness ==
  /\ fatal = "read"
  /\ Len(errChan) = 1
  /\ Returned /\ reportChan = "closed"
  /\ callerPC = "returned"

\* main has left its select loop through done, after all Count outcomes,
\* and has read the statistics of the finished engine
CallerFinished ==
  /\ callerPC = "returned"
  /\ enginePC = "exited" /\ reportChan = "closed"
  /\ Len(emitted) = opts.Count
  /\ snapshot # <<>> /\ snapshot[1].totalCount = opts.Count

\* C28: with Count = N > 0, under fair scheduling, a run without transport
\* failure (and without a signal) ends with main having received all N
\* outcomes, seen done after the stream was closed, left the select loop and
\* read the statistics; neither side stays blocked.
C28_CallerTerminates ==
  (opts.Count > 0) => <>(TransportFailure \/ signals > 0 \/ CallerFinished)

====
